---- MODULE Spec2Model ----
(***************************************************************************)
(* State-machine model of src/main.py: CreditCrawler.run and the calls it  *)
(* makes (NetworkManager.safe_request, _check_connectivity,                *)
(* _refresh_captcha, _get_total_pages, _fetch_page, _crawl_pages,          *)
(* _standardize_data, _supply_qual_fields).                                *)
(*                                                                         *)
(* One step of the model is one blocking HTTP GET issued by safe_request   *)
(* together with all the local computation that follows it up to the next  *)
(* GET.  The remote server is the environment: it decides whether a GET    *)
(* fails and what the response body holds.                                 *)
(***************************************************************************)
EXTENDS Integers, Sequences, FiniteSets, TLC

\* ------------------------------------------------------------------ bounds
\* RETRY_COUNT is read from the environment (AppConfig.load); the model
\* draws it from 0..MaxRetryCount.  A negative value behaves like 0: both
\* make range(...) empty.
MaxRetryCount == 3
\* The server reports `total` in 0..MaxPages * PAGE_SIZE, so at most MaxPages
\* pages are iterated.
MaxPages == 2

\* ------------------------------------------------------- program constants
PAGE_SIZE == 10
PAGE_RETRY_MAX == 2
QUAL_DEFAULT_SCORE == 100
CORE_FIELDS == {"cioName", "eqtName"}

\* ------------------------------------------------------------ Python values
\* A Python value is a record [t |-> type name, v |-> payload]; a dict is a
\* TLA+ function from its keys, a list is a sequence.
PyStr(s) == [t |-> "str", v |-> s]
PyInt(n) == [t |-> "int", v |-> n]
PyFloat(n) == [t |-> "float", v |-> n]
PyDict(d) == [t |-> "dict", v |-> d]
PyList(l) == [t |-> "list", v |-> l]
PyNone == [t |-> "NoneType", v |-> 0]

\* dict.get(key, default)
Get(d, key, default) == IF key \in DOMAIN d THEN d[key] ELSE default

\* bool(x): "", 0, None, [] and {} are false
Truthy(x) ==
  CASE x.t = "str" -> x.v # ""
    [] x.t \in {"int", "float"} -> x.v # 0
    [] x.t = "NoneType" -> FALSE
    [] x.t = "list" -> x.v # <<>>
    [] x.t = "dict" -> DOMAIN x.v # {}
    [] OTHER -> TRUE

\* The outcome of a call: a returned value or a raised exception.
Return(x) == [ok |-> TRUE, val |-> x]
Raise(e) == [ok |-> FALSE, exc |-> e]

\* The escaping exception types the model distinguishes.
CrawlerErrors == {"NetworkError", "DecryptionError", "ExportError"}
Exceptions == CrawlerErrors \cup {"JSONDecodeError", "AttributeError", "TypeError", "KeyError"}

\* ------------------------------------------------------------- CipherCodec
\* AES-CBC with a fixed key and IV is a bijection on block sequences, so a
\* ciphertext is identified with the plaintext it decrypts to: a text `body`
\* followed by the trailing bytes `tail` (the padding).  `wellformed` is false
\* when base64 decoding fails or the length is not a multiple of 16.
\* A body is [kind |-> "json", val |-> document] or [kind |-> "text", val |->
\* PyStr(s)] (text that is not JSON); it never ends in a NUL byte.
Cipher(body, tail) == [t |-> "b64", v |-> [wellformed |-> TRUE, body |-> body, tail |-> tail]]
TextBody(s) == [kind |-> "text", val |-> PyStr(s)]
JsonBody(doc) == [kind |-> "json", val |-> doc]
MalformedCipher == [t |-> "b64", v |-> [wellformed |-> FALSE, body |-> TextBody(""), tail |-> <<>>]]
\* "" : zero blocks, decrypts to the empty string
EmptyCipher == Cipher(TextBody(""), <<>>)
EmptyText == [body |-> TextBody(""), tail |-> <<>>]

\* bytes.rstrip(b"\x00") on the trailing bytes
RECURSIVE RStripZero(_)
RStripZero(bytes) ==
  IF bytes = <<>> THEN <<>>
  ELSE IF bytes[Len(bytes)] = 0 THEN RStripZero(SubSeq(bytes, 1, Len(bytes) - 1))
  ELSE bytes

\* _decrypt_data: every exception inside becomes DecryptionError.  The result
\* is the decoded text: the body followed by whatever rstrip left of the tail.
_decrypt_data(encrypted) ==
  IF encrypted.t # "b64" THEN Raise("DecryptionError")
  ELSE IF ~encrypted.v.wellformed THEN Raise("DecryptionError")
  ELSE LET tail == RStripZero(encrypted.v.tail)
       IN IF \E i \in 1..Len(tail) : tail[i] >= 128
          THEN Raise("DecryptionError")
          ELSE Return([body |-> encrypted.v.body, tail |-> tail])

\* json.loads(text): the body must be JSON and what follows it JSON whitespace
JsonWhitespace == {9, 10, 13, 32}
json_loads(text) ==
  IF text.body.kind = "json" /\ \A i \in 1..Len(text.tail) : text.tail[i] \in JsonWhitespace
  THEN Return(text.body.val)
  ELSE Raise("JSONDecodeError")

\* --------------------------------------------------------- RecordNormalizer
\* _supply_qual_fields, one field: absent -> default; present but not a
\* number -> default only when the default itself is a float.
SupplyField(qual, field, default) ==
  IF field \notin DOMAIN qual THEN default
  ELSE IF default.t = "float" /\ qual[field].t \notin {"int", "float"} THEN default
  ELSE qual[field]

QualDefaults(qual) ==
  [score |-> Get(qual, "csf", PyFloat(QUAL_DEFAULT_SCORE)),
   zxjf |-> PyInt(0), cxdj |-> PyStr(""), kf |-> PyInt(0), jcf |-> PyInt(0)]

\* _supply_qual_fields(qual): the dict after the in-place completion
_supply_qual_fields(qual) ==
  LET defaults == QualDefaults(qual)
  IN [k \in DOMAIN qual \cup DOMAIN defaults |->
        IF k \in DOMAIN defaults THEN SupplyField(qual, k, defaults[k]) ELSE qual[k]]

\* the loop over raw_data.get('zzmxcxfArray', []): the completed entries, or
\* AttributeError at the first entry that is no dict (qual.get)
RECURSIVE SupplyAll(_)
SupplyAll(quals) ==
  IF quals = <<>> THEN Return(<<>>)
  ELSE IF Head(quals).t # "dict" THEN Raise("AttributeError")
  ELSE LET rest == SupplyAll(Tail(quals))
       IN IF rest.ok THEN Return(<<PyDict(_supply_qual_fields(Head(quals).v))>> \o rest.val)
          ELSE rest

\* the synthetic qualification of a company without qualification entries;
\* `now` is the value time.time() returns
DefaultQualification(company, now) ==
  PyDict([zzmx |-> company.eqtName, score |-> company.csf, zxjf |-> PyInt(0),
          cxdj |-> PyStr(""), csf |-> company.csf, kf |-> PyInt(0), jcf |-> PyInt(0),
          eqlId |-> IF Truthy(company.orgId) THEN company.orgId
                    ELSE IF Truthy(company.cecId) THEN company.cecId
                    ELSE PyStr("default_" \o ToString(now))])

\* _standardize_data(raw_data) for a dict holding both core fields
_standardize_data(raw_data, now) ==
  LET company == [cioName |-> raw_data["cioName"], eqtName |-> raw_data["eqtName"],
                  orgId |-> Get(raw_data, "orgId", PyStr("")),
                  cecId |-> Get(raw_data, "cecId", PyStr("")),
                  csf |-> Get(raw_data, "csf", PyFloat(QUAL_DEFAULT_SCORE)),
                  qualifications |-> <<>>]
      array == Get(raw_data, "zzmxcxfArray", PyList(<<>>))
      quals == CASE array.t = "list" -> SupplyAll(array.v)
                 [] array.t = "str" /\ array.v = "" -> Return(<<>>)
                 [] array.t \in {"str", "dict"} -> Raise("AttributeError")
                 [] OTHER -> Raise("TypeError")
  IN IF ~quals.ok THEN quals
     ELSE IF quals.val # <<>> THEN Return([company EXCEPT !.qualifications = quals.val])
     ELSE Return([company EXCEPT !.qualifications = <<DefaultQualification(company, now)>>])

\* the loop over page_items without the core-field test: every mapping
\* becomes a profile, a missing field reads as ""
StandardizeItems_NoDrop(page_items, now) ==
  IF \E i \in 1..Len(page_items) : page_items[i].t # "dict"
  THEN Raise("AttributeError")
  ELSE Return([i \in 1..Len(page_items) |->
                 [cioName |-> Get(page_items[i].v, "cioName", PyStr("")),
                  eqtName |-> Get(page_items[i].v, "eqtName", PyStr("")),
                  orgId |-> Get(page_items[i].v, "orgId", PyStr("")),
                  cecId |-> Get(page_items[i].v, "cecId", PyStr("")),
                  csf |-> Get(page_items[i].v, "csf", PyFloat(QUAL_DEFAULT_SCORE)),
                  qualifications |-> <<>>]])

\* the loop over page_items in _crawl_pages: valid_items, or the first
\* exception (item.keys() on an item that is no dict, or _standardize_data's)
RECURSIVE StandardizeItems(_, _)
StandardizeItems(page_items, now) ==
  IF page_items = <<>> THEN Return(<<>>)
  ELSE LET item == Head(page_items)
       IN IF item.t # "dict" THEN Raise("AttributeError")
          ELSE IF ~(CORE_FIELDS \subseteq DOMAIN item.v)
               THEN StandardizeItems(Tail(page_items), now)
          ELSE LET standardized == _standardize_data(item.v, now)
                   rest == StandardizeItems(Tail(page_items), now)
               IN IF ~standardized.ok THEN standardized
                  ELSE IF ~rest.ok THEN rest
                  ELSE Return(<<standardized.val>> \o rest.val)

\* ------------------------------------------------------------------- state
VARIABLES
  RETRY_COUNT,      \* AppConfig.RETRY_COUNT, loaded from the environment
  pc,               \* where run() is: "check", "refresh", "sizing", "crawl",
                    \* "done" (data handed to the exporter), "raised"
  err,              \* the exception that escaped run(), "" if none
  raisedIn,         \* the phase that raised it
  net_attempt,      \* safe_request: `attempt` of the GET about to be issued
  refresh_attempt,  \* _refresh_captcha: 1-based index of the running attempt
  refreshFrom,      \* caller of the running _refresh_captcha: "run" or "crawl"
  clock,            \* int(time.time() * 1000) at the last reading
  timestamp,        \* _refresh_captcha: local `timestamp`
  current_code,     \* CreditCrawler.current_code (a decoded text)
  current_ts,       \* CreditCrawler.current_ts
  total_pages,      \* run: local `total_pages`
  page,             \* _crawl_pages: loop variable `page`
  page_attempt,     \* _crawl_pages: loop variable `attempt` (0-based)
  data,             \* _crawl_pages: the accumulated list
  \* history variables, read by the properties only
  hist,             \* per page: failed and successful iterating attempts,
                    \* _refresh_captcha calls made while on the page, and the
                    \* page_items of the attempt that succeeded
  sizing,           \* the sizing phase: _fetch_page(1) calls made, and success
  lastReq,          \* the last page request sent (URL and what was known then)
  lastCall,         \* the last finished safe_request: how it ended
  lastIssued,       \* nonce of the last challenge the captcha endpoint issued
  refreshLog,       \* the running/last _refresh_captcha call: its failed passes,
                    \* whether one received a challenge it could not decrypt,
                    \* and, until it returns, whether it follows a page attempt
                    \* that failed while normalizing a record
  call              \* a function of the program applied on its own, outside a
                    \* run: its name, its arguments and its outcome

vars == <<RETRY_COUNT, pc, err, raisedIn, net_attempt, refresh_attempt, refreshFrom,
          clock, timestamp, current_code, current_ts, total_pages, page,
          page_attempt, data, hist, sizing, lastReq, lastCall, lastIssued,
          refreshLog, call>>

Pages == 1..MaxPages

NoReq == [phase |-> "none", page |-> 0, code |-> EmptyText, codeValue |-> "",
          resolved |-> {}, sized |-> FALSE, issued |-> ""]
NoCall == [result |-> "none"]
NoFn == [fn |-> "none"]

\* a CreditCrawler after __init__, before run
Constructed ==
  /\ pc = "check" /\ err = "" /\ raisedIn = ""
  /\ net_attempt = 1 /\ refresh_attempt = 0 /\ refreshFrom = ""
  /\ clock = 0 /\ timestamp = ""
  /\ current_code = EmptyText /\ current_ts = ""
  /\ total_pages = 0 /\ page = 0 /\ page_attempt = 0 /\ data = <<>>
  /\ hist = [p \in Pages |-> [fails |-> 0, oks |-> 0, refreshes |-> 0, served |-> <<>>]]
  /\ sizing = [fetches |-> 0, ok |-> FALSE]
  /\ lastReq = NoReq /\ lastCall = NoCall /\ lastIssued = ""
  /\ refreshLog = [failed |-> 0, undecrypted |-> FALSE, recordFault |-> FALSE]

Init ==
  /\ RETRY_COUNT \in 0..MaxRetryCount
  /\ Constructed
  /\ call = NoFn

\* ---------------------------------------------------------------- Transport
\* safe_request with the exhaustion test off by one (attempt > RETRY_COUNT):
\* one GET more than the budget
safe_request_OffByOne(attempt, getOk) ==
  IF RETRY_COUNT < 1 THEN "None"
  ELSE IF getOk THEN "response"
  ELSE IF attempt = RETRY_COUNT + 1 THEN "NetworkError"
  ELSE "retry"

\* safe_request, one pass of its loop body on attempt number `attempt`, where
\* getOk says whether session.get and raise_for_status went through:
\* "response" (returned), "retry" (sleep, next attempt), "NetworkError"
\* (raised), or "None" when the loop body never runs and the function falls
\* off its end.
safe_request(attempt, getOk) ==
  IF RETRY_COUNT < 1 THEN "None"
  ELSE IF getOk THEN "response"
  ELSE IF attempt = RETRY_COUNT THEN "NetworkError"
  ELSE "retry"

\* what the finished call leaves behind: its result and the GETs it issued
CallRecord(sr) == [result |-> sr]

\* --------------------------------------------------------------- the server
\* the code text the captcha endpoint issues for the nonce `ts`
CodeFor(ts) == "code" \o ts

\* Response bodies of getCreateCode?codeValue=ts.  [json |-> FALSE] is a body
\* response.json() rejects.
CaptchaBodies(ts) ==
  { [json |-> FALSE, val |-> PyNone],
    [json |-> TRUE, val |-> PyDict([code |-> PyInt(1), data |-> PyNone])],
    [json |-> TRUE, val |-> PyDict([code |-> PyInt(0), data |-> MalformedCipher])],
    [json |-> TRUE, val |-> PyDict([code |-> PyInt(0), data |-> Cipher(TextBody(CodeFor(ts)), <<0, 0>>)])] }

\* no response was received: safe_request raised
NoBody == [json |-> FALSE, val |-> PyNone]

\* the endpoint issued a challenge: a success envelope
Issues(body) == body.json /\ body.val.t = "dict" /\ "code" \in DOMAIN body.val.v
                /\ body.val.v["code"] = PyInt(0)

\* the company names of page p
CoName(p, i) == "co_" \o ToString(p) \o "_" \o ToString(i)
RecFull(p, i) ==
  PyDict([cioName |-> PyStr(CoName(p, i)), eqtName |-> PyStr("t"), orgId |-> PyStr("o"),
          zzmxcxfArray |-> PyList(<<PyDict([zzmx |-> PyStr("z"), csf |-> PyInt(90)])>>)])
RecNoQual(p, i) ==
  PyDict([cioName |-> PyStr(CoName(p, i)), eqtName |-> PyStr("t"), cecId |-> PyStr("c")])
RecNoEqt(p, i) == PyDict([cioName |-> PyStr(CoName(p, i))])
RecNoCio(p, i) == PyDict([eqtName |-> PyStr("t"), orgId |-> PyStr(CoName(p, i))])
RecBadArray(p, i) ==
  PyDict([cioName |-> PyStr(CoName(p, i)), eqtName |-> PyStr("t"), zzmxcxfArray |-> PyInt(7)])

\* the `data` lists the server may hold for page p
ItemLists(p) ==
  { <<>>,
    <<RecFull(p, 1)>>,
    <<RecNoEqt(p, 1), RecNoQual(p, 2), RecNoCio(p, 3)>>,
    <<RecFull(p, 1), PyStr("x")>>,
    <<RecNoQual(p, 1), RecBadArray(p, 2)>> }

\* Response bodies of getCurrentIntegrityPage for page p
PageBodies(p) ==
  { [json |-> FALSE, val |-> PyNone],
    [json |-> TRUE, val |-> PyDict([data |-> MalformedCipher])],
    [json |-> TRUE, val |-> PyDict([data |-> Cipher(TextBody("<html>"), <<0>>)])],
    [json |-> TRUE, val |-> PyDict([code |-> PyInt(1)])] }
  \cup { [json |-> TRUE,
          val |-> PyDict([data |-> Cipher(JsonBody(PyDict([total |-> PyInt(t), data |-> PyList(items)])), <<0, 0>>)])] :
         t \in {MaxPages * PAGE_SIZE}, items \in ItemLists(p) }

\* Response bodies of the sizing request: what matters is `total`
SizingBodies ==
  { [json |-> FALSE, val |-> PyNone],
    [json |-> TRUE, val |-> PyDict([data |-> MalformedCipher])],
    [json |-> TRUE, val |-> PyDict([data |-> Cipher(TextBody("<html>"), <<0>>)])],
    [json |-> TRUE, val |-> PyDict([data |-> Cipher(JsonBody(PyDict([data |-> PyList(<<>>)])), <<0, 0>>)])] }
  \cup { [json |-> TRUE,
          val |-> PyDict([data |-> Cipher(JsonBody(PyDict([total |-> PyInt(t), data |-> PyList(<<>>)])), <<0, 0>>)])] :
         t \in 0..(MaxPages * PAGE_SIZE) }

\* -------------------------------------------------------------- PageFetcher
\* the parameters _fetch_page puts in the URL
PageUrl(p) == [page |-> p, code |-> current_code, codeValue |-> current_ts]

\* the pages a page request can know to be resolved when it is sent
Resolved == {p \in Pages : hist[p].oks >= 1 \/ hist[p].fails >= PAGE_RETRY_MAX}

PageRequest(phase, p) ==
  [phase |-> phase, page |-> p, code |-> PageUrl(p).code, codeValue |-> PageUrl(p).codeValue,
   resolved |-> Resolved, sized |-> sizing.ok, issued |-> lastIssued]

\* _fetch_page after safe_request ended with `sr` and, when it returned a
\* response, the body `body`: the page document or the exception raised
_fetch_page(sr, body) ==
  CASE sr = "NetworkError" -> Raise("NetworkError")
    [] sr = "None" -> Raise("AttributeError")
    [] ~body.json -> Raise("JSONDecodeError")
    [] body.val.t # "dict" -> Raise("AttributeError")
    [] OTHER -> LET decrypted == _decrypt_data(Get(body.val.v, "data", EmptyCipher))
                IN IF decrypted.ok THEN json_loads(decrypted.val) ELSE decrypted

\* (total + PAGE_SIZE - 1) // PAGE_SIZE computed without the rounding term
TotalPages_Floor(total, page_size) == total \div page_size

\* (total + PAGE_SIZE - 1) // PAGE_SIZE; PAGE_SIZE is read from the environment
TotalPages(total, page_size) == (total + page_size - 1) \div page_size

\* _get_total_pages: one _fetch_page(1), no handler around it
_get_total_pages(sr, body) ==
  LET page_data == _fetch_page(sr, body)
  IN IF ~page_data.ok THEN page_data
     ELSE IF page_data.val.t # "dict" THEN Raise("AttributeError")
     ELSE LET total == Get(page_data.val.v, "total", PyInt(0))
          IN IF total.t \notin {"int", "float"} THEN Raise("TypeError")
             ELSE Return(TotalPages(total.v, PAGE_SIZE))

\* ---------------------------------------------------------- PaginationDriver
\* the try-body of _crawl_pages for one attempt: page_items and valid_items,
\* or the exception that reaches the handler
PageAttempt(sr, body, now) ==
  LET page_data == _fetch_page(sr, body)
  IN IF ~page_data.ok THEN page_data
     ELSE IF page_data.val.t # "dict" THEN Raise("AttributeError")
     ELSE LET page_items == Get(page_data.val.v, "data", PyList(<<>>))
          IN IF page_items.t # "list" THEN Raise("TypeError")
             ELSE LET valid_items == StandardizeItems(page_items.v, now)
                  IN IF valid_items.ok
                     THEN Return([page_items |-> page_items.v, valid_items |-> valid_items.val])
                     ELSE valid_items

\* data.extend(valid_items)
Extend(list, valid_items) == list \o valid_items

\* the attempt loop refreshing the captcha after every failure, the last too
PageLoop_RefreshAlways(ok, attempt) ==
  IF ok THEN "next" ELSE "refresh"

\* the attempt loop re-raising when the last attempt failed
PageLoop_RaiseOnExhaustion(ok, attempt) ==
  IF ok THEN "next"
  ELSE IF attempt = PAGE_RETRY_MAX - 1 THEN "raise"
  ELSE "refresh"

\* the attempt loop with `break` outside the try: one attempt per page
PageLoop_BreakOnFailure(ok, attempt) == "next"

\* the attempt loop without its `break`: a page that was fetched is attempted
\* again while attempts remain
PageLoop_NoBreak(ok, attempt) ==
  IF attempt = PAGE_RETRY_MAX - 1 THEN (IF ok THEN "next" ELSE "skip")
  ELSE "refresh"

\* what the attempt loop of _crawl_pages does after attempt number `attempt`:
\* "next" (break after a success), "skip" (the last attempt failed),
\* "refresh" (refresh the captcha, then the next attempt)
PageLoop(ok, attempt) ==
  IF ok THEN "next"
  ELSE IF attempt = PAGE_RETRY_MAX - 1 THEN "skip"
  ELSE "refresh"

\* --------------------------------------------------------- CaptchaController
\* one pass of the loop body of _refresh_captcha after safe_request ended
\* with `sr`: the decrypted code, or what ended the pass ("continue" for a
\* non-zero envelope code, else the exception the handler logs)
RefreshAttempt(sr, body) ==
  CASE sr = "NetworkError" -> Raise("NetworkError")
    [] sr = "None" -> Raise("AttributeError")
    [] ~body.json -> Raise("JSONDecodeError")
    [] body.val.t # "dict" -> Raise("TypeError")
    [] "code" \notin DOMAIN body.val.v -> Raise("KeyError")
    [] ~(body.val.v["code"].t \in {"int", "float"} /\ body.val.v["code"].v = 0) -> Raise("continue")
    [] "data" \notin DOMAIN body.val.v -> Raise("KeyError")
    [] OTHER -> _decrypt_data(body.val.v["data"])

\* the token with current_ts assigned before the request is made
TokenAfterAttempt_TsFirst(r, ts) ==
  IF r.ok THEN [code |-> r.val, ts |-> ts]
  ELSE [code |-> current_code, ts |-> ts]

\* the token cleared by a pass that failed
TokenAfterAttempt_ClearOnFailure(r, ts) ==
  IF r.ok THEN [code |-> r.val, ts |-> ts]
  ELSE [code |-> EmptyText, ts |-> ""]

\* the token after the pass: both fields are assigned after the decryption
TokenAfterAttempt(r, ts) ==
  IF r.ok THEN [code |-> r.val, ts |-> ts]
  ELSE [code |-> current_code, ts |-> current_ts]

\* _refresh_captcha returning from inside a `finally`: every pass returns
RefreshLoop_ReturnAlways(ok, attempt) == "return"

\* _refresh_captcha without the raise after its loop: it returns
RefreshLoop_ReturnOnExhaustion(ok, attempt) ==
  IF ok THEN "return"
  ELSE IF attempt < RETRY_COUNT THEN "retry"
  ELSE "return"

\* _refresh_captcha returning after its first pass whatever the outcome
RefreshLoop_NoRetry(ok, attempt) ==
  IF ok THEN "return"
  ELSE IF attempt < RETRY_COUNT THEN "return"
  ELSE "raise"

\* the loop of _refresh_captcha after pass number `attempt` (1-based):
\* "return", "retry" (next pass) or "raise" (NetworkError after the loop)
RefreshLoop(ok, attempt) ==
  IF ok THEN "return"
  ELSE IF attempt < RETRY_COUNT THEN "retry"
  ELSE "raise"

\* ------------------------------------------------------------------ actions
\* the page document arrived and the attempt failed in the loop over its
\* items: item.keys(), _standardize_data or _supply_qual_fields raised
RecordFault(sr, body, now) ==
  LET page_data == _fetch_page(sr, body)
  IN /\ page_data.ok /\ page_data.val.t = "dict"
     /\ Get(page_data.val.v, "data", PyList(<<>>)).t = "list"
     /\ ~PageAttempt(sr, body, now).ok

\* ------------------------------------------------------------------ actions
Abort(e, where) == pc' = "raised" /\ err' = e /\ raisedIn' = where

\* a call of _refresh_captcha: its first pass reads the clock, or, with an
\* empty range(RETRY_COUNT), it raises at once
StartRefresh(from, fault) ==
  IF RETRY_COUNT >= 1
  THEN /\ pc' = "refresh" /\ refreshFrom' = from /\ refresh_attempt' = 1
       /\ clock' = clock + 1 /\ timestamp' = ToString(clock + 1)
       /\ net_attempt' = 1
       /\ refreshLog' = [failed |-> 0, undecrypted |-> FALSE, recordFault |-> fault]
       /\ UNCHANGED <<err, raisedIn>>
  ELSE /\ Abort("NetworkError", "refresh")
       /\ UNCHANGED <<refreshFrom, refresh_attempt, clock, timestamp, net_attempt, refreshLog>>

\* the head of `for page in range(1, total + 1)` reaching page p
GotoPage(p, total) ==
  IF p <= total
  THEN pc' = "crawl" /\ page' = p /\ page_attempt' = 0 /\ net_attempt' = 1
  ELSE pc' = "done" /\ UNCHANGED <<page, page_attempt, net_attempt>>

\* the head of `for attempt in range(PAGE_RETRY_MAX)` after a refresh
NextAttempt ==
  IF page_attempt + 1 < PAGE_RETRY_MAX
  THEN pc' = "crawl" /\ page_attempt' = page_attempt + 1 /\ net_attempt' = 1 /\ page' = page
  ELSE GotoPage(page + 1, total_pages)

\* safe_request: a failed GET that is not the last one; sleep and go on
SafeRequestRetry ==
  /\ pc \in {"check", "refresh", "sizing", "crawl"}
  /\ safe_request(net_attempt, FALSE) = "retry"
  /\ net_attempt' = net_attempt + 1
  /\ lastReq' = IF pc \in {"sizing", "crawl"}
                THEN PageRequest(pc, IF pc = "sizing" THEN 1 ELSE page)
                ELSE lastReq
  /\ UNCHANGED <<call, RETRY_COUNT, pc, err, raisedIn, refresh_attempt, refreshFrom, clock,
                 timestamp, current_code, current_ts, total_pages, page, page_attempt,
                 data, hist, sizing, lastCall, lastIssued, refreshLog>>

\* run: _check_connectivity, then the first _refresh_captcha
CheckConnectivity ==
  /\ pc = "check"
  /\ \E getOk \in BOOLEAN, status200 \in BOOLEAN :
       LET sr == safe_request(net_attempt, getOk)
       IN /\ sr # "retry"
          /\ lastCall' = CallRecord(sr)
          /\ CASE sr = "None" ->
                    /\ Abort("AttributeError", "check")
                    /\ UNCHANGED <<refreshFrom, refresh_attempt, clock, timestamp,
                                   net_attempt, refreshLog>>
               [] sr = "NetworkError" \/ (sr = "response" /\ ~status200) ->
                    /\ Abort("NetworkError", "check")
                    /\ UNCHANGED <<refreshFrom, refresh_attempt, clock, timestamp,
                                   net_attempt, refreshLog>>
               [] OTHER -> StartRefresh("run", FALSE)
  /\ UNCHANGED <<call, RETRY_COUNT, current_code, current_ts, total_pages, page, page_attempt,
                 data, hist, sizing, lastReq, lastIssued>>

\* _refresh_captcha: the end of one pass of its loop
RefreshCaptcha ==
  /\ pc = "refresh"
  /\ \E getOk \in BOOLEAN : \E body \in (IF getOk THEN CaptchaBodies(timestamp) ELSE {NoBody}) :
       LET sr == safe_request(net_attempt, getOk)
           r == RefreshAttempt(sr, body)
           token == TokenAfterAttempt(r, timestamp)
           todo == RefreshLoop(r.ok, refresh_attempt)
       IN /\ sr # "retry"
          /\ lastCall' = CallRecord(sr)
          /\ lastIssued' = IF sr = "response" /\ Issues(body) THEN timestamp ELSE lastIssued
          /\ current_code' = token.code
          /\ current_ts' = token.ts
          /\ refreshLog' = [failed |-> IF r.ok THEN refreshLog.failed ELSE refreshLog.failed + 1,
                            undecrypted |-> refreshLog.undecrypted
                                            \/ (sr = "response" /\ Issues(body) /\ ~r.ok),
                            recordFault |-> refreshLog.recordFault /\ todo # "return"]
          /\ CASE todo = "return" ->
                    /\ IF refreshFrom = "run"
                       THEN pc' = "sizing" /\ net_attempt' = 1 /\ UNCHANGED <<page, page_attempt>>
                       ELSE NextAttempt
                    /\ UNCHANGED <<err, raisedIn, refresh_attempt, clock, timestamp>>
               [] todo = "retry" ->
                    /\ refresh_attempt' = refresh_attempt + 1
                    /\ clock' = clock + 1 /\ timestamp' = ToString(clock + 1)
                    /\ net_attempt' = 1
                    /\ UNCHANGED <<pc, err, raisedIn, page, page_attempt>>
               [] OTHER ->
                    /\ Abort("NetworkError", "refresh")
                    /\ UNCHANGED <<refresh_attempt, clock, timestamp, net_attempt, page,
                                   page_attempt>>
  /\ UNCHANGED <<call, RETRY_COUNT, refreshFrom, total_pages, data, hist, sizing, lastReq>>

\* run: _get_total_pages, then the head of the page loop of _crawl_pages
GetTotalPages ==
  /\ pc = "sizing"
  /\ \E getOk \in BOOLEAN : \E body \in (IF getOk THEN SizingBodies ELSE {NoBody}) :
       LET sr == safe_request(net_attempt, getOk)
           r == _get_total_pages(sr, body)
       IN /\ sr # "retry"
          /\ lastCall' = CallRecord(sr)
          /\ lastReq' = PageRequest("sizing", 1)
          /\ sizing' = [sizing EXCEPT !.fetches = @ + 1, !.ok = r.ok]
          /\ IF r.ok
             THEN /\ total_pages' = r.val
                  /\ GotoPage(1, r.val)
                  /\ UNCHANGED <<err, raisedIn>>
             ELSE /\ Abort(r.exc, "sizing")
                  /\ UNCHANGED <<total_pages, page, page_attempt, net_attempt>>
  /\ UNCHANGED <<call, RETRY_COUNT, refresh_attempt, refreshFrom, clock, timestamp, current_code,
                 current_ts, data, hist, lastIssued, refreshLog>>

\* _crawl_pages: the end of one attempt on the current page
CrawlPages ==
  /\ pc = "crawl"
  /\ \E getOk \in BOOLEAN : \E body \in (IF getOk THEN PageBodies(page) ELSE {NoBody}) :
       LET sr == safe_request(net_attempt, getOk)
           r == PageAttempt(sr, body, clock)
           todo == PageLoop(r.ok, page_attempt)
       IN /\ sr # "retry"
          /\ lastCall' = CallRecord(sr)
          /\ lastReq' = PageRequest("crawl", page)
          /\ data' = IF r.ok THEN Extend(data, r.val.valid_items) ELSE data
          /\ hist' = [hist EXCEPT ![page] =
                        [fails |-> IF r.ok THEN @.fails ELSE @.fails + 1,
                         oks |-> IF r.ok THEN @.oks + 1 ELSE @.oks,
                         refreshes |-> IF todo = "refresh" THEN @.refreshes + 1 ELSE @.refreshes,
                         served |-> IF r.ok THEN r.val.page_items ELSE @.served]]
          /\ CASE todo \in {"next", "skip"} ->
                    /\ GotoPage(page + 1, total_pages)
                    /\ UNCHANGED <<err, raisedIn, refreshFrom, refresh_attempt, clock,
                                   timestamp, refreshLog>>
               [] todo = "refresh" ->
                    /\ StartRefresh("crawl", RecordFault(sr, body, clock))
                    /\ UNCHANGED <<page, page_attempt>>
               [] OTHER ->
                    /\ Abort(r.exc, "crawl")
                    /\ UNCHANGED <<net_attempt, page, page_attempt, refreshFrom,
                                   refresh_attempt, clock, timestamp, refreshLog>>
  /\ UNCHANGED <<call, RETRY_COUNT, current_code, current_ts, total_pages, sizing, lastIssued>>

Next ==
  \/ SafeRequestRetry
  \/ CheckConnectivity
  \/ RefreshCaptcha
  \/ GetTotalPages
  \/ CrawlPages

Spec == Init /\ [][Next]_vars

\* run() does not pause: whatever step is possible is taken
FairSpec == Spec /\ WF_vars(Next)

\* ------------------------------------------------- functions on their own
\* The functions of the program that keep no state, each applied once to
\* arguments drawn from bounded sets.  The crawler itself stays as constructed.
MaxTotal == 100
MaxPageSize == 12

crawler == <<RETRY_COUNT, pc, err, raisedIn, net_attempt, refresh_attempt, refreshFrom,
             clock, timestamp, current_code, current_ts, total_pages, page,
             page_attempt, data, hist, sizing, lastReq, lastCall, lastIssued,
             refreshLog>>

CallInit ==
  /\ RETRY_COUNT \in 0..MaxRetryCount
  /\ Constructed
  /\ call = NoFn

\* the arithmetic of _get_total_pages for a page document holding `total`,
\* under a PAGE_SIZE the environment may set
CallTotalPages ==
  /\ call = NoFn
  /\ \E total \in 0..MaxTotal, page_size \in 1..MaxPageSize :
       call' = [fn |-> "_get_total_pages", total |-> total, page_size |-> page_size,
                result |-> TotalPages(total, page_size)]
  /\ UNCHANGED crawler

\* a key the server left out of a mapping
Absent == [t |-> "absent", v |-> 0]

\* the dict holding the keys of `fields` whose value is not Absent
DictOf(fields) == PyDict([k \in {f \in DOMAIN fields : fields[f] # Absent} |-> fields[k]])

\* qualification fragments as the server sends them
QualPlain == PyDict([zzmx |-> PyStr("z"), csf |-> PyInt(90)])
QualOdd == PyDict([zzmx |-> PyStr("y"), score |-> PyStr("A"), zxjf |-> PyStr("2")])

\* values found under zzmxcxfArray
QualArrays ==
  { Absent, PyList(<<>>), PyList(<<QualPlain>>), PyList(<<QualPlain, QualOdd>>),
    PyNone, PyInt(7), PyList(<<QualPlain, PyStr("x")>>) }

\* raw records holding both core fields
RawRecords ==
  { DictOf([cioName |-> PyStr("a"), eqtName |-> PyStr("t"), orgId |-> orgId,
            cecId |-> cecId, csf |-> csf, zzmxcxfArray |-> array]) :
      orgId \in {Absent, PyStr(""), PyStr("o")},
      cecId \in {Absent, PyStr(""), PyStr("c")},
      csf \in {Absent, PyInt(90), PyStr("90")},
      array \in QualArrays }

\* _standardize_data(raw_data), with time.time() returning `now`
CallStandardizeData ==
  /\ call = NoFn
  /\ \E raw_data \in RawRecords, now \in {1, 2} :
       call' = [fn |-> "_standardize_data", raw_data |-> raw_data,
                result |-> _standardize_data(raw_data.v, now)]
  /\ UNCHANGED crawler

\* qualification fragments with fields absent, numeric or of another type
QualRecords ==
  { DictOf([zzmx |-> PyStr("z"), csf |-> csf, score |-> score,
            zxjf |-> zxjf, kf |-> kf, jcf |-> jcf]) :
      csf \in {Absent, PyInt(90)},
      score \in {Absent, PyInt(80), PyStr("A")},
      zxjf \in {Absent, PyInt(5), PyFloat(2), PyStr("x"), PyNone},
      kf \in {Absent, PyInt(5), PyStr("x"), PyNone},
      jcf \in {Absent, PyInt(5), PyStr("x")} }

\* _supply_qual_fields(qual): the dict it leaves behind
CallSupplyQualFields ==
  /\ call = NoFn
  /\ \E qual \in QualRecords :
       call' = [fn |-> "_supply_qual_fields", qual |-> qual,
                result |-> _supply_qual_fields(qual.v)]
  /\ UNCHANGED crawler

\* the bytes that may follow the text of a decrypted payload: NUL, PKCS7
\* padding values, a line feed, a value above the block size, a byte that is
\* no UTF-8
MaxTail == 3
TailBytes == {0, 1, 2, 3, 10, 17, 200}
Tails == UNION {[1..n -> TailBytes] : n \in 0..MaxTail}

\* _decrypt_data(encrypted) for a well-formed ciphertext
CallDecryptData ==
  /\ call = NoFn
  /\ \E body \in {TextBody("<html>"), JsonBody(PyDict([total |-> PyInt(0)]))}, tail \in Tails :
       call' = [fn |-> "_decrypt_data", encrypted |-> Cipher(body, tail),
                result |-> _decrypt_data(Cipher(body, tail))]
  /\ UNCHANGED crawler

\* safe_request(url): a new call, or the next pass of the loop of a call that
\* is running; `gets` counts the GETs the call has issued
CallSafeRequest ==
  /\ \E getOk \in BOOLEAN :
       LET running == call.fn = "safe_request" /\ call.result = "retry"
           attempt == IF running THEN call.gets + 1 ELSE 1
           sr == safe_request(attempt, getOk)
       IN /\ call = NoFn \/ running
          /\ call' = [fn |-> "safe_request", result |-> sr,
                      gets |-> IF sr = "None" THEN 0 ELSE attempt]
  /\ UNCHANGED crawler

CallNext ==
  \/ CallSafeRequest
  \/ CallTotalPages
  \/ CallStandardizeData
  \/ CallSupplyQualFields
  \/ CallDecryptData

CallSpec == CallInit /\ [][CallNext]_vars

\* ---------------------------------------------------------------- properties
\* the accumulated records that came from page p
PageNames(p) == {CoName(p, i) : i \in 1..2}
PageData(p) == SelectSeq(data, LAMBDA c : c.cioName.v \in PageNames(p))

\* the names of the records of a page document that hold both core fields
HasCore(item) == item.t = "dict" /\ CORE_FIELDS \subseteq DOMAIN item.v
ValidNames(page_items) ==
  LET valid == SelectSeq(page_items, HasCore)
  IN [i \in 1..Len(valid) |-> valid[i].v["cioName"]]

\* data holds, for page p, exactly the valid records of the document served
Accumulated(p) ==
  [i \in 1..Len(PageData(p)) |-> PageData(p)[i].cioName] = ValidNames(hist[p].served)

\* the handling of page p is over
Over(p) == pc = "done" \/ (pc \in {"crawl", "refresh", "raised"} /\ page > p)

\* C1 as stated (the spec's case: two failures, then a success): a page whose
\* fetch failed twice gets two refresh calls and its items are accumulated.
C1_Original ==
  \A p \in Pages :
    (hist[p].fails = 2 /\ Over(p)) =>
      (hist[p].refreshes = 2 /\ hist[p].oks = 1 /\ Accumulated(p))

\* C1, amended: a page that succeeds after k failures has k < PAGE_RETRY_MAX,
\* saw exactly k refresh calls, and its items are accumulated; a page that
\* failed PAGE_RETRY_MAX times gets no further attempt: PAGE_RETRY_MAX - 1
\* refresh calls, nothing accumulated.
C1_RefreshCoupling ==
  \A p \in Pages :
    /\ hist[p].oks >= 1 =>
         /\ hist[p].fails < PAGE_RETRY_MAX
         /\ hist[p].refreshes = hist[p].fails
         /\ Accumulated(p)
    /\ hist[p].fails >= PAGE_RETRY_MAX =>
         /\ hist[p].fails = PAGE_RETRY_MAX
         /\ hist[p].oks = 0
         /\ hist[p].refreshes = PAGE_RETRY_MAX - 1
         /\ PageData(p) = <<>>

C1_Witness ==
  \E p \in Pages :
    hist[p].fails = 1 /\ hist[p].oks = 1 /\ hist[p].refreshes = 1 /\ PageData(p) # <<>>

\* C2: a page whose PAGE_RETRY_MAX attempts all failed is skipped, not fatal:
\* the run leaves _crawl_pages by an exception only when a captcha refresh
\* itself ran out of attempts; after the skip the loop is on a later page or
\* done; a finished run has attempted every page 1..total_pages and holds
\* the items of each page whose fetch succeeded.
C2_PartialFailure ==
  /\ pc = "raised" => raisedIn # "crawl"
  /\ (pc = "raised" /\ refreshFrom = "crawl") =>
       (raisedIn = "refresh" /\ refreshLog.failed = RETRY_COUNT
        /\ hist[page].fails < PAGE_RETRY_MAX)
  /\ \A p \in Pages :
       hist[p].fails >= PAGE_RETRY_MAX => (Over(p) /\ PageData(p) = <<>>)
  /\ pc = "done" =>
       \A q \in 1..total_pages :
         /\ hist[q].fails + hist[q].oks >= 1
         /\ hist[q].oks >= 1 => Accumulated(q)

C2_Witness ==
  /\ pc = "done" /\ total_pages >= 2
  /\ hist[1].fails = PAGE_RETRY_MAX
  /\ hist[2].oks = 1 /\ PageData(2) # <<>>

\* C3 as stated, over every page request of the run: when a request for page
\* p is sent, every page before p is resolved and p is not, where a page is
\* resolved once one request for it succeeded or PAGE_RETRY_MAX attempts on
\* it failed.
C3_Original ==
  lastReq.phase # "none" =>
    LET resolved == lastReq.resolved \cup (IF lastReq.sized THEN {1} ELSE {})
    IN /\ lastReq.page \notin resolved
       /\ \A q \in 1..(lastReq.page - 1) : q \in resolved

\* C3, amended: the same over the requests of the iterating phase
\* (_crawl_pages), with resolution by the attempts of that phase.
C3_PageMonotonic ==
  lastReq.phase = "crawl" =>
    /\ lastReq.page \notin lastReq.resolved
    /\ \A q \in 1..(lastReq.page - 1) : q \in lastReq.resolved

C3_Witness ==
  /\ lastReq.phase = "crawl" /\ lastReq.page = 2
  /\ hist[1].fails = PAGE_RETRY_MAX /\ 1 \in lastReq.resolved

\* C4: a _refresh_captcha call whose RETRY_COUNT passes all failed ends the
\* run with NetworkError, raised by the refresh, and nothing happens after a
\* raise: no further request.
C4_RefreshExhaustionFatal ==
  /\ []((refresh_attempt >= 1 /\ refreshLog.failed >= RETRY_COUNT) =>
          (pc = "raised" /\ err = "NetworkError" /\ raisedIn = "refresh"))
  /\ [][pc = "raised" => UNCHANGED vars]_vars

C4_Witness ==
  /\ pc = "raised" /\ raisedIn = "refresh" /\ err = "NetworkError"
  /\ refreshFrom = "crawl" /\ RETRY_COUNT >= 2 /\ refreshLog.failed = RETRY_COUNT

\* a code and a timestamp of the same refresh pass, or both still empty
TokenPaired(code, ts) ==
  \/ code = EmptyText /\ ts = ""
  \/ ts # "" /\ code.body = TextBody(CodeFor(ts))

\* C5: current_code and current_ts always come from the same refresh pass,
\* and so do the code and codeValue of every page request.
C5_TokenPairing ==
  /\ TokenPaired(current_code, current_ts)
  /\ lastReq.phase # "none" => TokenPaired(lastReq.code, lastReq.codeValue)

C5_Witness ==
  /\ lastReq.phase = "crawl" /\ refreshFrom = "crawl" /\ refreshLog.failed >= 1
  /\ lastReq.codeValue = timestamp /\ lastReq.codeValue = current_ts
  /\ lastReq.code.body = TextBody(CodeFor(timestamp))

\* C6: every page request carries the challenge the captcha endpoint issued
\* last, also after a pass that received a challenge it could not decrypt.
C6_FreshestToken ==
  lastReq.phase # "none" =>
    /\ lastReq.issued # ""
    /\ lastReq.codeValue = lastReq.issued
    /\ lastReq.code.body = TextBody(CodeFor(lastReq.issued))

C6_Witness ==
  /\ lastReq.phase = "crawl" /\ refreshFrom = "crawl" /\ refreshLog.undecrypted
  /\ lastReq.codeValue = timestamp /\ lastReq.issued = timestamp

\* C7 as stated: whatever ends the core (refresh, sizing, crawl) by an
\* exception is a NetworkError or a DecryptionError.
C7_OutcomeTaxonomy ==
  (pc = "raised" /\ raisedIn \in {"refresh", "sizing", "crawl"}) =>
    err \in {"NetworkError", "DecryptionError"}

\* C8: the run reaches a terminal state, and on the way no loop exceeds its
\* budget: at most RETRY_COUNT GETs per safe_request, RETRY_COUNT passes per
\* refresh, PAGE_RETRY_MAX attempts per page.
C8_Termination ==
  /\ <>(pc \in {"done", "raised"})
  /\ [](/\ (RETRY_COUNT >= 1 => net_attempt <= RETRY_COUNT)
        /\ refresh_attempt <= RETRY_COUNT
        /\ refreshLog.failed <= RETRY_COUNT
        /\ page_attempt < PAGE_RETRY_MAX
        /\ \A p \in Pages : hist[p].fails + hist[p].oks <= PAGE_RETRY_MAX)

C8_Witness ==
  /\ pc = "done" /\ total_pages = MaxPages /\ RETRY_COUNT >= 2
  /\ lastCall.result = "NetworkError"
  /\ \E p \in Pages : hist[p].fails = PAGE_RETRY_MAX

\* C9 as stated: a sizing failure is fatal only after the per-page retry
\* policy ran, that is after PAGE_RETRY_MAX fetches of page 1.
C9_SizingRetry ==
  (pc = "raised" /\ raisedIn = "sizing") => sizing.fetches = PAGE_RETRY_MAX

\* C10 as stated: a finished safe_request returned a response after at most
\* RETRY_COUNT GETs or raised NetworkError after exactly RETRY_COUNT.
C10_TransportBudget ==
  (call.fn = "safe_request" /\ call.result # "retry") =>
    \/ call.result = "response" /\ call.gets \in 1..RETRY_COUNT
    \/ call.result = "NetworkError" /\ call.gets = RETRY_COUNT

C12_PaginationArithmetic ==
  call.fn = "_get_total_pages" =>
    /\ call.result >= 0
    /\ call.result * call.page_size >= call.total
    /\ (call.result - 1) * call.page_size < call.total
    /\ (call.total = 95 /\ call.page_size = 10) => call.result = 10
    /\ (call.total = 100 /\ call.page_size = 10) => call.result = 10
    /\ call.total = 0 => (call.result = 0 /\ 1..call.result = {})

C12_Witness ==
  /\ call.fn = "_get_total_pages" /\ call.total = 95 /\ call.page_size = 10
  /\ call.result = 10

\* the record supplies no qualification entries
NoQualifications(raw_data) ==
  "zzmxcxfArray" \notin DOMAIN raw_data.v \/ raw_data.v["zzmxcxfArray"] = PyList(<<>>)

\* C13 as stated: for any raw record holding cioName and eqtName,
\* _standardize_data yields a profile with at least one qualification, and
\* exactly one, the synthetic one, when zzmxcxfArray is absent or empty.
C13_NormalizerTotality ==
  call.fn = "_standardize_data" =>
    /\ call.result.ok
    /\ Len(call.result.val.qualifications) >= 1
    /\ NoQualifications(call.raw_data) =>
         /\ Len(call.result.val.qualifications) = 1
         /\ call.result.val.qualifications[1].v["zzmx"] = call.raw_data.v["eqtName"]

\* the profile d was made from the raw record `item`
FromItem(d, item) ==
  /\ item.t = "dict"
  /\ \E k \in DOMAIN item.v \cap {"cioName", "orgId"} : d[k] = item.v[k]

\* C14: of a page that was fetched, no record missing cioName or eqtName has
\* a profile in the accumulated list, and the records of that page holding
\* both fields are accumulated, in order.
C14_DropRule ==
  \A p \in Pages :
    hist[p].oks >= 1 =>
      /\ \A i \in 1..Len(hist[p].served) :
           ~HasCore(hist[p].served[i]) =>
             \A j \in 1..Len(data) : ~FromItem(data[j], hist[p].served[i])
      /\ Accumulated(p)

C14_Witness ==
  \E p \in Pages :
    /\ hist[p].oks = 1 /\ Len(hist[p].served) = 3
    /\ \E i, j \in 1..3 :
         /\ "cioName" \notin DOMAIN hist[p].served[i].v
         /\ "eqtName" \notin DOMAIN hist[p].served[j].v
    /\ Len(PageData(p)) = 1

\* C15 as stated: after _supply_qual_fields each of zxjf, kf and jcf is a
\* number, and it is 0 when the field was absent or held a non-numeric value.
C15_NumericDefaulting ==
  call.fn = "_supply_qual_fields" =>
    \A f \in {"zxjf", "kf", "jcf"} :
      /\ call.result[f].t \in {"int", "float"}
      /\ (f \notin DOMAIN call.qual.v \/ call.qual.v[f].t \notin {"int", "float"}) =>
           call.result[f] = PyInt(0)

\* the decrypted bytes end in PKCS7 padding for blocks of 16 bytes: the last
\* byte n is in 1..16 and the last n bytes all equal n (the bytes of the text
\* itself are printable, so the padding lies within the trailing bytes)
ValidPadding(encrypted) ==
  LET tail == encrypted.v.tail
      n == tail[Len(tail)]
  IN /\ Len(tail) >= 1
     /\ n \in 1..16
     /\ n <= Len(tail)
     /\ \A i \in (Len(tail) - n + 1)..Len(tail) : tail[i] = n

\* C16 as stated: _decrypt_data fails with DecryptionError for every payload
\* whose decrypted bytes do not end in valid PKCS7 padding.
C16_PaddingRejection ==
  (call.fn = "_decrypt_data" /\ ~ValidPadding(call.encrypted)) =>
    call.result = Raise("DecryptionError")

\* C17: _refresh_captcha is called after a failed attempt only while attempts
\* on the page remain: a page never sees more than PAGE_RETRY_MAX - 1 refresh
\* calls, an exhausted page exactly that many, no refresh call runs for an
\* exhausted page, and the first attempt on the page after an exhausted one
\* is sent with the token of the last pass of the last refresh call.
C17_RefreshWhileAttemptsRemain ==
  /\ \A p \in Pages :
       /\ hist[p].refreshes <= PAGE_RETRY_MAX - 1
       /\ hist[p].refreshes <= hist[p].fails
       /\ hist[p].fails >= PAGE_RETRY_MAX => hist[p].refreshes = PAGE_RETRY_MAX - 1
  /\ (pc \in {"refresh", "raised"} /\ refreshFrom = "crawl") =>
       hist[page].fails < PAGE_RETRY_MAX
  /\ (/\ lastReq.phase = "crawl" /\ lastReq.page >= 2
      /\ hist[lastReq.page - 1].fails >= PAGE_RETRY_MAX
      /\ hist[lastReq.page].refreshes = 0) =>
       /\ refreshFrom = "crawl" /\ refreshLog.failed < RETRY_COUNT
       /\ lastReq.codeValue = timestamp
       /\ lastReq.code.body = TextBody(CodeFor(timestamp))

C17_Witness ==
  /\ lastReq.phase = "crawl" /\ lastReq.page = 2
  /\ hist[1].fails = PAGE_RETRY_MAX /\ hist[1].refreshes = PAGE_RETRY_MAX - 1
  /\ hist[2].oks = 1 /\ hist[2].fails = 0
  /\ refreshLog.failed >= 1 /\ lastReq.codeValue = timestamp

\* C18 as stated: a record whose normalization fails never makes the run
\* end with a fatal error: no run is aborted by a refresh that was called
\* because a page attempt failed on one of its records.
C18_RecordProblemsNonFatal ==
  pc = "raised" => ~(refreshFrom = "crawl" /\ refreshLog.recordFault)

\* C19: a page attempt that fails appends nothing and a page is appended at
\* most once: every page has at most one successful attempt, a page without
\* one has no profile in data, a page with one has exactly its valid records
\* there, once and in order, and data holds nothing else; data changes only
\* in the step of a successful attempt, by that page's profiles.
C19_AtomicAccumulation ==
  /\ [](\A p \in Pages :
          /\ hist[p].oks <= 1
          /\ hist[p].oks = 0 => PageData(p) = <<>>
          /\ hist[p].oks = 1 => Accumulated(p))
  /\ [](\A i, j \in 1..Len(data) :
          /\ \E p \in Pages : data[i].cioName.v \in PageNames(p)
          /\ i # j => data[i].cioName # data[j].cioName)
  /\ [][data' # data =>
          /\ pc = "crawl"
          /\ hist'[page].oks = hist[page].oks + 1 /\ hist'[page].fails = hist[page].fails
          /\ SubSeq(data', 1, Len(data)) = data
          /\ \A i \in (Len(data) + 1)..Len(data') : data'[i].cioName.v \in PageNames(page)]_vars

C19_Witness ==
  /\ pc = "done" /\ total_pages = 2
  /\ hist[1].fails = 1 /\ hist[1].oks = 1 /\ Len(PageData(1)) = 1
  /\ hist[2].fails = PAGE_RETRY_MAX /\ PageData(2) = <<>>
  /\ Len(data) = 1

\* C20: a pass of _refresh_captcha that fails, by a transport error, a
\* non-zero envelope code or a decrypt failure, leaves current_code and
\* current_ts as they were; the two change only in the step of a successful
\* pass, both at once, to the code and the timestamp of that pass; no other
\* step changes them.
C20_FailedRefreshKeepsToken ==
  [][/\ (pc = "refresh" /\ refreshLog'.failed > refreshLog.failed) =>
          UNCHANGED <<current_code, current_ts>>
     /\ (current_code' # current_code \/ current_ts' # current_ts) =>
          /\ pc = "refresh" /\ refreshLog'.failed = refreshLog.failed
          /\ current_code' # current_code /\ current_ts' # current_ts
          /\ current_ts' = timestamp
          /\ current_code'.body = TextBody(CodeFor(timestamp))]_vars

C20_Witness ==
  /\ pc = "refresh" /\ refreshFrom = "crawl"
  /\ refreshLog.failed >= 2 /\ refreshLog.undecrypted
  /\ current_ts # "" /\ current_ts # timestamp /\ current_ts # lastIssued
  /\ current_code.body = TextBody(CodeFor(current_ts))

====
